---- MODULE Spec2Model ----
(***************************************************************************)
(* Model of driver.c: open-loop six-step BLDC commutation driver.          *)
(* State = the driver's globals plus the TIM1 / GPIO registers it writes.  *)
(***************************************************************************)
EXTENDS Integers, Naturals, FiniteSets, Sequences, TLC

\* ---------------------------------------------------------------- constants
\* TIM2 PWM period in counts; defined in parameter.h
TIM2_PWM_PD == 250

PWM_100PCNT == TIM2_PWM_PD
PWM_50PCNT == PWM_100PCNT \div 2
PWM_25PCNT == PWM_100PCNT \div 4
PWM_0PCNT == 0
PWM_DC_RAMPUP == PWM_50PCNT
PWM_NOT_MANUAL_DEF == PWM_25PCNT

BLDC_ONE_RAMP_UNIT == 1
BLDC_OL_TM_LO_SPD == 512
BLDC_OL_TM_HI_SPD == 80
BLDC_OL_TM_MANUAL_HI_LIM == 64
N_CSTEPS == 6
THREE_PHASES == 3

\* uint16_t arithmetic
U16 == 65536
Wrap16(n) == n % U16

\* ------------------------------------------------------------------- bounds
\* BLDC_Spd_dec is only exercised while the period is below this value
MaxCommTm == 514
\* duty requests handed to PWM_Set_DC by callers outside driver.c
DutyInputs == {0, PWM_DC_RAMPUP}

\* -------------------------------------------------------------------- types
BLDC_STATE_T == {"BLDC_OFF", "BLDC_RAMPUP", "BLDC_ON"}
DC_PWM_STATE_t == {"DC_OUTP_OFF", "DC_PWM_PLUS", "DC_PWM_MINUS",
                   "DC_OUTP_HI", "DC_OUTP_LO", "DC_OUTP_FLOAT"}
\* PHASE_A, PHASE_B, PHASE_C
THREE_PHASE_CHANNELS_t == 0 .. (THREE_PHASES - 1)

VARIABLES
    BLDC_State,       \* motor state
    BLDC_OL_comm_tm,  \* commutation period (TIM3 counts), uint16_t
    global_uDC,       \* commanded duty cycle, uint16_t
    bldc_step,        \* static sector index of BLDC_Step
    cc_en,            \* TIM1 channel 2/3/4 output enable, per phase
    ccr,              \* TIM1 compare register 2/3/4, per phase
    pin,              \* GPIOC ODR bits 2/3/4 (phase pins), per phase
    sd,               \* /SD driver enables: PC5, PC7, PG1, per phase
    last_op,          \* name of the driver function that ran last
    stop_from,        \* motor state the last BLDC_Stop was issued in, kept
                      \* while nothing but the tick after that stop has run
    last_states,      \* intents handed to the last PWM_set_outputs call
    moved,            \* TRUE iff the last BLDC_Step called bldc_move
    Ramp_Step_Tm      \* static ramp stride; declared, never read or written

vars == <<BLDC_State, BLDC_OL_comm_tm, global_uDC, bldc_step,
          cc_en, ccr, pin, sd, last_op, stop_from, last_states, moved,
          Ramp_Step_Tm>>

fsm_vars == <<BLDC_State, BLDC_OL_comm_tm, global_uDC>>
out_vars == <<bldc_step, cc_en, ccr, pin, sd, last_states, moved>>

\* ------------------------------------------------------------ pure functions
\* faulty inversion: operands of the subtraction swapped
_set_output_SwappedOperands(state0, uDC) ==
    CASE state0 = "DC_OUTP_HI"   -> PWM_100PCNT
      [] state0 = "DC_PWM_PLUS"  -> uDC
      [] state0 = "DC_PWM_MINUS" -> Wrap16(uDC - TIM2_PWM_PD + U16)
      [] OTHER                   -> PWM_0PCNT

\* _set_output: compare value for one phase
_set_output(state0, uDC) ==
    CASE state0 = "DC_OUTP_HI"   -> PWM_100PCNT
      [] state0 = "DC_PWM_PLUS"  -> uDC
      [] state0 = "DC_PWM_MINUS" -> Wrap16(TIM2_PWM_PD - uDC)
      [] OTHER                   -> PWM_0PCNT

\* PWM_set_outputs, one phase: channel enable
ChanEnable(state0) == (state0 = "DC_PWM_PLUS")

\* PWM_set_outputs, one phase: compare register (written only when enabled)
ChanCompare(state0, uDC, old) ==
    IF ChanEnable(state0) THEN _set_output(state0, uDC) ELSE old

\* PWM_set_outputs, one phase: ODR bit (written only when channel disabled)
ChanPin(state0, old) ==
    IF ChanEnable(state0) THEN old
    ELSE IF state0 = "DC_OUTP_HI" THEN 1 ELSE 0

\* faulty table: sector 2 drives phase A high instead of floating it
SectorStates_ShortedRow(step) ==
    CASE step = 1 -> <<"DC_PWM_PLUS", "DC_OUTP_FLOAT", "DC_OUTP_LO">>
      [] step = 2 -> <<"DC_OUTP_HI", "DC_PWM_PLUS", "DC_OUTP_LO">>
      [] step = 3 -> <<"DC_OUTP_LO", "DC_PWM_PLUS", "DC_OUTP_FLOAT">>
      [] step = 4 -> <<"DC_OUTP_LO", "DC_OUTP_FLOAT", "DC_PWM_PLUS">>
      [] step = 5 -> <<"DC_OUTP_FLOAT", "DC_OUTP_LO", "DC_PWM_PLUS">>
      [] OTHER    -> <<"DC_PWM_PLUS", "DC_OUTP_LO", "DC_OUTP_FLOAT">>

\* bldc_move: intents per sector (default falls into case 0)
SectorStates(step) ==
    CASE step = 1 -> <<"DC_PWM_PLUS", "DC_OUTP_FLOAT", "DC_OUTP_LO">>
      [] step = 2 -> <<"DC_OUTP_FLOAT", "DC_PWM_PLUS", "DC_OUTP_LO">>
      [] step = 3 -> <<"DC_OUTP_LO", "DC_PWM_PLUS", "DC_OUTP_FLOAT">>
      [] step = 4 -> <<"DC_OUTP_LO", "DC_OUTP_FLOAT", "DC_PWM_PLUS">>
      [] step = 5 -> <<"DC_OUTP_FLOAT", "DC_OUTP_LO", "DC_PWM_PLUS">>
      [] OTHER    -> <<"DC_PWM_PLUS", "DC_OUTP_LO", "DC_OUTP_FLOAT">>

\* faulty /SD bits: sector 4 enables the floating phase B, not the low phase A
SectorSD_WrongDriver(step) ==
    CASE step = 1 -> <<1, 0, 1>>
      [] step = 2 -> <<0, 1, 1>>
      [] step = 3 -> <<1, 1, 0>>
      [] step = 4 -> <<0, 1, 1>>
      [] step = 5 -> <<0, 1, 1>>
      [] OTHER    -> <<1, 1, 0>>

\* bldc_move: /SD outputs per sector (PC5, PC7, PG1)
SectorSD(step) ==
    CASE step = 1 -> <<1, 0, 1>>
      [] step = 2 -> <<0, 1, 1>>
      [] step = 3 -> <<1, 1, 0>>
      [] step = 4 -> <<1, 0, 1>>
      [] step = 5 -> <<0, 1, 1>>
      [] OTHER    -> <<1, 1, 0>>

\* ----------------------------------------------------------------- actions
\* PWM_set_outputs(state0, state1, state2): effect on TIM1 / GPIOC
PWM_set_outputs(states) ==
    /\ cc_en' = [p \in THREE_PHASE_CHANNELS_t |-> ChanEnable(states[p + 1])]
    /\ ccr' = [p \in THREE_PHASE_CHANNELS_t |->
                 ChanCompare(states[p + 1], global_uDC, ccr[p])]
    /\ pin' = [p \in THREE_PHASE_CHANNELS_t |-> ChanPin(states[p + 1], pin[p])]
    /\ last_states' = states

\* value PWM_Set_DC leaves in global_uDC
Set_DC_value(pwm_dc, state) == pwm_dc

PWM_Set_DC(pwm_dc) ==
    /\ global_uDC' = Set_DC_value(pwm_dc, BLDC_State)
    /\ last_op' = "PWM_Set_DC"
    /\ UNCHANGED Ramp_Step_Tm
    /\ stop_from' = "none"
    /\ UNCHANGED <<BLDC_State, BLDC_OL_comm_tm>>
    /\ UNCHANGED out_vars

\* faulty stop: also rewinds the sector index
BLDC_Stop_ResetsSector ==
    /\ BLDC_State' = "BLDC_OFF"
    /\ global_uDC' = Set_DC_value(0, "BLDC_OFF")
    /\ last_op' = "BLDC_Stop"
    /\ stop_from' = BLDC_State
    /\ bldc_step' = 0
    /\ UNCHANGED <<BLDC_OL_comm_tm, Ramp_Step_Tm>>
    /\ UNCHANGED <<cc_en, ccr, pin, sd, last_states, moved>>

BLDC_Stop ==
    /\ BLDC_State' = "BLDC_OFF"
    /\ global_uDC' = Set_DC_value(0, "BLDC_OFF")
    /\ last_op' = "BLDC_Stop"
    /\ UNCHANGED Ramp_Step_Tm
    /\ stop_from' = BLDC_State
    /\ UNCHANGED BLDC_OL_comm_tm
    /\ UNCHANGED out_vars

\* faulty restart: a speed command restarts the ramp from ON as well
Spd_state_RestartsFromOn(state) ==
    IF state \in {"BLDC_OFF", "BLDC_ON"} THEN "BLDC_RAMPUP" ELSE state

\* state after the first if of BLDC_Spd_dec / BLDC_Spd_inc
Spd_state(state) == IF state = "BLDC_OFF" THEN "BLDC_RAMPUP" ELSE state

Spd_dec_tm(state, tm) ==
    IF Spd_state(state) = "BLDC_ON" /\ tm < 65535 THEN Wrap16(tm + 1) ELSE tm

\* faulty limit test: ">=" lets the period go one below the manual limit
Spd_inc_tm_OffByOne(state, tm) ==
    IF Spd_state(state) = "BLDC_ON" /\ tm >= BLDC_OL_TM_MANUAL_HI_LIM
    THEN Wrap16(tm - 1 + U16) ELSE tm

Spd_inc_tm(state, tm) ==
    IF Spd_state(state) = "BLDC_ON" /\ tm > BLDC_OL_TM_MANUAL_HI_LIM
    THEN Wrap16(tm - 1 + U16) ELSE tm

BLDC_Spd_dec ==
    /\ BLDC_State = "BLDC_ON" => BLDC_OL_comm_tm < MaxCommTm
    /\ BLDC_State' = Spd_state(BLDC_State)
    /\ BLDC_OL_comm_tm' = Spd_dec_tm(BLDC_State, BLDC_OL_comm_tm)
    /\ last_op' = "BLDC_Spd_dec"
    /\ UNCHANGED Ramp_Step_Tm
    /\ stop_from' = "none"
    /\ UNCHANGED global_uDC
    /\ UNCHANGED out_vars

BLDC_Spd_inc ==
    /\ BLDC_State' = Spd_state(BLDC_State)
    /\ BLDC_OL_comm_tm' = Spd_inc_tm(BLDC_State, BLDC_OL_comm_tm)
    /\ last_op' = "BLDC_Spd_inc"
    /\ UNCHANGED Ramp_Step_Tm
    /\ stop_from' = "none"
    /\ UNCHANGED global_uDC
    /\ UNCHANGED out_vars

\* faulty transition test: "<" where the code falls through on "<="
Update_state_StrictlyBelow(state, tm) ==
    IF state = "BLDC_RAMPUP" /\ tm < BLDC_OL_TM_HI_SPD THEN "BLDC_ON"
    ELSE state

\* BLDC_Update: the three results of the switch on BLDC_State
Update_state(state, tm) ==
    IF state = "BLDC_RAMPUP" /\ ~(tm > BLDC_OL_TM_HI_SPD) THEN "BLDC_ON"
    ELSE state

\* faulty switch: the ON case falls into the ramp
Update_tm_RampsInOn(state, tm) ==
    CASE state \in {"BLDC_ON", "BLDC_RAMPUP"} ->
            IF tm > BLDC_OL_TM_HI_SPD THEN Wrap16(tm - BLDC_ONE_RAMP_UNIT + U16)
            ELSE tm
      [] OTHER -> BLDC_OL_TM_LO_SPD

\* faulty ramp test: ">=" takes one unit too many off the period
Update_tm_OneTooFar(state, tm) ==
    CASE state = "BLDC_ON" -> tm
      [] state = "BLDC_RAMPUP" ->
            IF tm >= BLDC_OL_TM_HI_SPD THEN Wrap16(tm - BLDC_ONE_RAMP_UNIT + U16)
            ELSE tm
      [] OTHER -> BLDC_OL_TM_LO_SPD

Update_tm(state, tm) ==
    CASE state = "BLDC_ON" -> tm
      [] state = "BLDC_RAMPUP" ->
            IF tm > BLDC_OL_TM_HI_SPD THEN Wrap16(tm - BLDC_ONE_RAMP_UNIT + U16)
            ELSE tm
      [] OTHER -> BLDC_OL_TM_LO_SPD

Update_uDC(state, tm, uDC) ==
    CASE state = "BLDC_ON" -> uDC
      [] state = "BLDC_RAMPUP" ->
            IF tm > BLDC_OL_TM_HI_SPD
            THEN Set_DC_value(PWM_DC_RAMPUP, state)
            ELSE Set_DC_value(PWM_NOT_MANUAL_DEF, "BLDC_ON")
      [] OTHER -> uDC

BLDC_Update ==
    /\ BLDC_State' = Update_state(BLDC_State, BLDC_OL_comm_tm)
    /\ BLDC_OL_comm_tm' = Update_tm(BLDC_State, BLDC_OL_comm_tm)
    /\ global_uDC' = Update_uDC(BLDC_State, BLDC_OL_comm_tm, global_uDC)
    /\ last_op' = "BLDC_Update"
    /\ UNCHANGED Ramp_Step_Tm
    /\ stop_from' = IF last_op = "BLDC_Stop" THEN stop_from ELSE "none"
    /\ UNCHANGED out_vars

\* faulty wrap: modulus one too large
NextSector_WrapLate(step) == (step + 1) % (N_CSTEPS + 1)

\* BLDC_Step: sector advance
NextSector(step) == (step + 1) % N_CSTEPS

\* faulty branch: ">=" lets a zero duty through to bldc_move
StepMoves_ZeroIncluded(uDC) == uDC >= 0

\* BLDC_Step: the branch on global_uDC
StepMoves(uDC) == uDC > 0

AllOff == <<"DC_OUTP_OFF", "DC_OUTP_OFF", "DC_OUTP_OFF">>

BLDC_Step ==
    /\ bldc_step' = NextSector(bldc_step)
    /\ moved' = StepMoves(global_uDC)
    /\ IF StepMoves(global_uDC)
       THEN /\ sd' = [p \in THREE_PHASE_CHANNELS_t |->
                        SectorSD(bldc_step')[p + 1]]
            /\ PWM_set_outputs(SectorStates(bldc_step'))
       ELSE /\ sd' = [p \in THREE_PHASE_CHANNELS_t |-> 0]
            /\ PWM_set_outputs(AllOff)
    /\ last_op' = "BLDC_Step"
    /\ UNCHANGED Ramp_Step_Tm
    /\ stop_from' = "none"
    /\ UNCHANGED fsm_vars

\* ------------------------------------------------------------ specification
Init ==
    /\ BLDC_State = "BLDC_OFF"
    /\ BLDC_OL_comm_tm = 0
    /\ global_uDC = 0
    /\ bldc_step = 0
    /\ cc_en = [p \in THREE_PHASE_CHANNELS_t |-> FALSE]
    /\ ccr = [p \in THREE_PHASE_CHANNELS_t |-> 0]
    /\ pin = [p \in THREE_PHASE_CHANNELS_t |-> 0]
    /\ sd = [p \in THREE_PHASE_CHANNELS_t |-> 0]
    /\ last_op = "reset"
    /\ stop_from = "none"
    /\ last_states = AllOff
    /\ moved = FALSE
    /\ Ramp_Step_Tm = 0

Next ==
    \/ BLDC_Stop
    \/ BLDC_Spd_dec
    \/ BLDC_Spd_inc
    \/ BLDC_Update
    \/ BLDC_Step
    \/ \E pwm_dc \in DutyInputs : PWM_Set_DC(pwm_dc)

Spec == Init /\ [][Next]_vars

TypeOK ==
    /\ BLDC_State \in BLDC_STATE_T
    /\ BLDC_OL_comm_tm \in 0 .. (U16 - 1)
    /\ global_uDC \in 0 .. (U16 - 1)
    /\ bldc_step \in 0 .. (N_CSTEPS - 1)

\* ---------------------------------------------------------------------------
\* Ramp scenario: the controller sits in OFF with the period already reset by
\* a tick; speed commands, ticks and commutation steps follow, no stop.
\* The time base calls BLDC_Update periodically: weak fairness on the tick.
InitRamp ==
    /\ BLDC_State = "BLDC_OFF"
    /\ BLDC_OL_comm_tm = BLDC_OL_TM_LO_SPD
    /\ global_uDC = 0
    /\ bldc_step = 0
    /\ cc_en = [p \in THREE_PHASE_CHANNELS_t |-> FALSE]
    /\ ccr = [p \in THREE_PHASE_CHANNELS_t |-> 0]
    /\ pin = [p \in THREE_PHASE_CHANNELS_t |-> 0]
    /\ sd = [p \in THREE_PHASE_CHANNELS_t |-> 0]
    /\ last_op = "BLDC_Update"
    /\ stop_from = "none"
    /\ last_states = AllOff
    /\ moved = FALSE
    /\ Ramp_Step_Tm = 0

NextRamp ==
    \/ BLDC_Spd_dec
    \/ BLDC_Spd_inc
    \/ BLDC_Update
    \/ BLDC_Step

\* Running system observed from the first tick on (period already reset).
SpecTicked == InitRamp /\ [][Next]_vars

SpecRamp == InitRamp /\ [][NextRamp]_vars /\ WF_vars(BLDC_Update)

\* ---------------------------------------------------------------------------
\* Translator harness: PWM_set_outputs applied to every triple of intents,
\* for each valid commanded duty.
TranslateDuties == {0, 1, PWM_25PCNT, PWM_50PCNT, TIM2_PWM_PD - 1}

InitTranslate ==
    /\ BLDC_State \in {"BLDC_RAMPUP", "BLDC_ON"}
    /\ BLDC_OL_comm_tm = BLDC_OL_TM_HI_SPD
    /\ global_uDC \in TranslateDuties
    /\ bldc_step = 0
    /\ cc_en = [p \in THREE_PHASE_CHANNELS_t |-> FALSE]
    /\ ccr = [p \in THREE_PHASE_CHANNELS_t |-> 0]
    /\ pin = [p \in THREE_PHASE_CHANNELS_t |-> 0]
    /\ sd = [p \in THREE_PHASE_CHANNELS_t |-> 0]
    /\ last_op = "reset"
    /\ stop_from = "none"
    /\ last_states = AllOff
    /\ moved = FALSE
    /\ Ramp_Step_Tm = 0

Translate(s0, s1, s2) ==
    /\ PWM_set_outputs(<<s0, s1, s2>>)
    /\ last_op' = "PWM_set_outputs"
    /\ UNCHANGED Ramp_Step_Tm
    /\ UNCHANGED <<fsm_vars, bldc_step, sd, stop_from, moved>>

NextTranslate ==
    \E s0, s1, s2 \in DC_PWM_STATE_t : Translate(s0, s1, s2)

SpecTranslate == InitTranslate /\ [][NextTranslate]_vars

\* ---------------------------------------------------------------------------
\* Duty requests: the motor runs in ON at the end of the ramp and callers hand
\* PWM_Set_DC values on both sides of the PWM period, between commutation
\* steps and stops.
DutyRequests ==
    {0, 1, TIM2_PWM_PD - 1, TIM2_PWM_PD, TIM2_PWM_PD + 1, U16 - 1}

InitDuty ==
    /\ BLDC_State = "BLDC_ON"
    /\ BLDC_OL_comm_tm = BLDC_OL_TM_HI_SPD
    /\ global_uDC = PWM_NOT_MANUAL_DEF
    /\ bldc_step = 0
    /\ cc_en = [p \in THREE_PHASE_CHANNELS_t |-> FALSE]
    /\ ccr = [p \in THREE_PHASE_CHANNELS_t |-> 0]
    /\ pin = [p \in THREE_PHASE_CHANNELS_t |-> 0]
    /\ sd = [p \in THREE_PHASE_CHANNELS_t |-> 0]
    /\ last_op = "BLDC_Update"
    /\ stop_from = "none"
    /\ last_states = AllOff
    /\ moved = FALSE
    /\ Ramp_Step_Tm = 0

NextDuty ==
    \/ BLDC_Stop
    \/ BLDC_Step
    \/ \E pwm_dc \in DutyRequests : PWM_Set_DC(pwm_dc)

SpecDuty == InitDuty /\ [][NextDuty]_vars

\* ===========================================================================
\* Properties
\* ===========================================================================
Phases == THREE_PHASE_CHANNELS_t

\* number of phases of a triple of intents that carry intent s
Count(states, s) == Cardinality({p \in Phases : states[p + 1] = s})

NoPwmEnabled == \A p \in Phases : ~cc_en[p]
PinsLow == \A p \in Phases : pin[p] = 0
DriversOff == \A p \in Phases : sd[p] = 0
AllPhasesOff == NoPwmEnabled /\ PinsLow /\ DriversOff

\* C1: every triple bldc_move issues has exactly one PWM-driven phase, exactly
\* one forced-low phase and exactly one floating phase, and no forced-high
\* phase, for each of the six sectors.
C1_OneDriveOneLowOneFloat ==
    moved =>
        /\ last_states = SectorStates(bldc_step)
        /\ Count(last_states, "DC_PWM_PLUS") + Count(last_states, "DC_PWM_MINUS") = 1
        /\ Count(last_states, "DC_OUTP_LO") = 1
        /\ Count(last_states, "DC_OUTP_FLOAT") = 1
        /\ Count(last_states, "DC_OUTP_HI") = 0
        /\ Count(last_states, "DC_OUTP_OFF") = 0

C1_Witness ==
    /\ last_op = "BLDC_Step"
    /\ moved
    /\ bldc_step = 5
    /\ last_states = <<"DC_OUTP_FLOAT", "DC_OUTP_LO", "DC_PWM_PLUS">>

\* C2: a commutation step taken while the commanded duty is 0 does not go
\* through the sector table and leaves all three phases off: no PWM channel
\* enabled, all phase pins low, all driver enables low.
C2_StepAtZeroDutyAllOff ==
    (last_op = "BLDC_Step" /\ global_uDC = 0) =>
        /\ ~moved
        /\ last_states = AllOff
        /\ AllPhasesOff

C2_Witness ==
    /\ last_op = "BLDC_Step"
    /\ global_uDC = 0
    /\ BLDC_State = "BLDC_ON"
    /\ AllPhasesOff
    /\ \A p \in Phases : ccr[p] > 0

\* C3: in OFF the commanded duty is 0, whatever operations ran before.
C3_OffImpliesZeroDuty ==
    BLDC_State = "BLDC_OFF" => global_uDC = 0

\* C4: right after BLDC_Stop the state is OFF, the period is the low-speed
\* period and the duty is 0.
C4_StopImmediate ==
    last_op = "BLDC_Stop" =>
        /\ BLDC_State = "BLDC_OFF"
        /\ BLDC_OL_comm_tm = BLDC_OL_TM_LO_SPD
        /\ global_uDC = 0

\* C5: after a stop issued in ON and the tick that follows it, the state is
\* OFF, the period is the low-speed period, the duty is 0, no PWM channel is
\* enabled and every phase is floating or forced low.
C5_StopThenTickOutputsOff ==
    (last_op = "BLDC_Update" /\ stop_from = "BLDC_ON") =>
        /\ BLDC_State = "BLDC_OFF"
        /\ BLDC_OL_comm_tm = BLDC_OL_TM_LO_SPD
        /\ global_uDC = 0
        /\ NoPwmEnabled
        /\ PinsLow

\* C6: a speed command received in OFF moves the state to RAMPUP with the
\* period equal to the low-speed period.
C6_SpeedCommandFromOff ==
    [][(BLDC_State = "BLDC_OFF" /\ last_op' \in {"BLDC_Spd_inc", "BLDC_Spd_dec"})
        => (BLDC_State' = "BLDC_RAMPUP" /\ BLDC_OL_comm_tm' = BLDC_OL_TM_LO_SPD)]_vars

\* C7: from OFF with the period reset, once a speed command has started the
\* ramp, ticks alone bring the state to ON; the tick that enters ON leaves the
\* period at the high-speed period and the duty at the nominal run value.
C7_RampReachesOn ==
    /\ (BLDC_State = "BLDC_RAMPUP") ~> (BLDC_State = "BLDC_ON")
    /\ [][(BLDC_State = "BLDC_RAMPUP" /\ BLDC_State' = "BLDC_ON")
            => /\ last_op' = "BLDC_Update"
               /\ BLDC_OL_comm_tm' = BLDC_OL_TM_HI_SPD
               /\ global_uDC' = PWM_NOT_MANUAL_DEF]_vars

C7_Witness ==
    /\ last_op = "BLDC_Update"
    /\ BLDC_State = "BLDC_ON"
    /\ BLDC_OL_comm_tm = BLDC_OL_TM_HI_SPD
    /\ global_uDC = PWM_NOT_MANUAL_DEF

RECURSIVE StepsFrom(_, _)
StepsFrom(step, n) == IF n = 0 THEN step ELSE StepsFrom(NextSector(step), n - 1)

\* C9: the sector index stays in 0..5; every commutation step, and nothing
\* else, moves it to (sector + 1) mod 6, in any motor state and at any duty;
\* six steps visit six different sectors and come back to the start.
C9_SectorPeriodSix ==
    /\ [](/\ bldc_step \in 0 .. 5
          /\ StepsFrom(bldc_step, 6) = bldc_step
          /\ Cardinality({StepsFrom(bldc_step, n) : n \in 0 .. 5}) = 6)
    /\ [][IF last_op' = "BLDC_Step"
          THEN bldc_step' = (bldc_step + 1) % 6
          ELSE bldc_step' = bldc_step]_vars

C9_Witness ==
    /\ last_op = "BLDC_Step"
    /\ bldc_step = 0
    /\ BLDC_State = "BLDC_OFF"
    /\ global_uDC = 0
    /\ \A p \in Phases : ccr[p] > 0

\* C10: what PWM_set_outputs leaves on a phase follows the translator table:
\* FLOAT and FORCE_LOW disable the PWM channel, FORCE_HIGH disables it and
\* sets the pin high, DRIVE_FORWARD enables it with compare = d and
\* DRIVE_INVERTED enables it with compare = PWM period - d.
C10_TranslatorTable ==
    last_op = "PWM_set_outputs" =>
        \A p \in Phases :
            LET intent == last_states[p + 1] IN
            /\ intent \in {"DC_OUTP_FLOAT", "DC_OUTP_LO"} => ~cc_en[p]
            /\ intent = "DC_OUTP_HI" => (~cc_en[p] /\ pin[p] = 1)
            /\ intent = "DC_PWM_PLUS" => (cc_en[p] /\ ccr[p] = global_uDC)
            /\ intent = "DC_PWM_MINUS" =>
                  (cc_en[p] /\ ccr[p] = TIM2_PWM_PD - global_uDC)

\* C11: for a valid duty d, the compare value written for a forward-driven
\* phase plus the compare value _set_output computes for the inverted intent at
\* the same d is exactly the PWM period, and the inverted value is the plain
\* difference (no 16-bit wrap).
C11_CompareValuesSumToPeriod ==
    (last_op = "PWM_set_outputs" /\ global_uDC < TIM2_PWM_PD) =>
        /\ _set_output("DC_PWM_PLUS", global_uDC)
             + _set_output("DC_PWM_MINUS", global_uDC) = TIM2_PWM_PD
        /\ _set_output("DC_PWM_MINUS", global_uDC) = TIM2_PWM_PD - global_uDC
        /\ \A p \in Phases :
              last_states[p + 1] = "DC_PWM_PLUS" =>
                  ccr[p] + _set_output("DC_PWM_MINUS", global_uDC) = TIM2_PWM_PD

C11_Witness ==
    /\ last_op = "PWM_set_outputs"
    /\ global_uDC = TIM2_PWM_PD - 1
    /\ last_states = <<"DC_PWM_PLUS", "DC_PWM_MINUS", "DC_OUTP_FLOAT">>
    /\ ccr[0] = TIM2_PWM_PD - 1
    /\ _set_output("DC_PWM_MINUS", global_uDC) = 1

\* C12: the commanded duty is always below the PWM period: a request outside
\* the range is clamped before it is stored.
C12_DutyWithinPeriod ==
    global_uDC < TIM2_PWM_PD

\* C13: a tick in RAMPUP never raises the period: above the high-speed period
\* it lowers it by one unit, not below the high-speed period and without
\* wrapping, and stays in RAMPUP; at or below the high-speed period it leaves
\* the period alone.
C13_RampMonotone ==
    [][(BLDC_State = "BLDC_RAMPUP" /\ last_op' = "BLDC_Update") =>
        /\ BLDC_OL_comm_tm' <= BLDC_OL_comm_tm
        /\ IF BLDC_OL_comm_tm > BLDC_OL_TM_HI_SPD
           THEN /\ BLDC_OL_comm_tm' < BLDC_OL_comm_tm
                /\ BLDC_OL_comm_tm' >= BLDC_OL_TM_HI_SPD
                /\ BLDC_State' = "BLDC_RAMPUP"
           ELSE BLDC_OL_comm_tm' = BLDC_OL_comm_tm]_vars

C13_Witness ==
    /\ last_op = "BLDC_Update"
    /\ BLDC_State = "BLDC_RAMPUP"
    /\ BLDC_OL_comm_tm = BLDC_OL_TM_HI_SPD
    /\ global_uDC = PWM_DC_RAMPUP

\* C14: in RAMPUP a tick lowers the period only when the countdown expires;
\* the countdown is then reloaded from the stride Ramp_Step_Tm, a whole number
\* of ticks (at least one), and the stride is halved without leaving that
\* range; a tick that directly follows a decrementing tick decrements again
\* only once the stride has come down to one tick.
C14_StrideGovernsRamp ==
    [][(/\ BLDC_State = "BLDC_RAMPUP"
        /\ last_op' = "BLDC_Update"
        /\ BLDC_OL_comm_tm' # BLDC_OL_comm_tm) =>
           /\ Ramp_Step_Tm >= 1
           /\ Ramp_Step_Tm' >= 1
           /\ Ramp_Step_Tm' \in {Ramp_Step_Tm, Ramp_Step_Tm \div 2}
           /\ last_op = "BLDC_Update" => Ramp_Step_Tm = 1]_vars

\* duty the motor state prescribes
PrescribedDuty(state) ==
    CASE state = "BLDC_RAMPUP" -> PWM_DC_RAMPUP
      [] state = "BLDC_ON"     -> PWM_NOT_MANUAL_DEF
      [] OTHER                 -> 0

\* C15: right after a tick the commanded duty is the one the resulting motor
\* state prescribes: the ramp value in RAMPUP, the nominal value in ON, 0 in
\* OFF.
C15_DutyFollowsStateAfterTick ==
    last_op = "BLDC_Update" => global_uDC = PrescribedDuty(BLDC_State)

\* C16: BLDC_Stop, BLDC_Spd_inc, BLDC_Spd_dec and BLDC_Update leave the sector
\* index, the PWM channel enables, the compare registers, the phase pins and
\* the driver enables as they are; when any of them changes, a commutation
\* step did it.
C16_OnlyStepTouchesOutputs ==
    [][/\ last_op' \in {"BLDC_Stop", "BLDC_Spd_inc", "BLDC_Spd_dec", "BLDC_Update"}
          => UNCHANGED <<bldc_step, cc_en, ccr, pin, sd>>
       /\ <<bldc_step, cc_en, ccr, pin, sd>>' # <<bldc_step, cc_en, ccr, pin, sd>>
          => last_op' = "BLDC_Step"]_vars

C16_Witness ==
    /\ last_op = "BLDC_Spd_inc"
    /\ BLDC_State = "BLDC_RAMPUP"
    /\ global_uDC = 0
    /\ bldc_step = 3
    /\ cc_en[1]
    /\ sd = [p \in Phases |-> SectorSD(3)[p + 1]]

\* C17: a duty at or above the PWM period never reaches a compare register:
\* the step then leaves no PWM channel enabled, so the compare value of every
\* enabled channel is strictly between 0 and the PWM period.
C17_CompareStrictlyInsidePeriod ==
    /\ \A p \in Phases : cc_en[p] => (ccr[p] > 0 /\ ccr[p] < TIM2_PWM_PD)
    /\ (last_op = "BLDC_Step" /\ global_uDC >= TIM2_PWM_PD) => NoPwmEnabled

\* C18: a tick in ON changes neither the period nor the motor state; whatever
\* changes the period in ON is a speed command, and it changes it by one.
C18_OnHoldsPeriod ==
    [][BLDC_State = "BLDC_ON" =>
        /\ last_op' = "BLDC_Update"
             => (BLDC_OL_comm_tm' = BLDC_OL_comm_tm /\ BLDC_State' = "BLDC_ON")
        /\ BLDC_OL_comm_tm' # BLDC_OL_comm_tm
             => /\ last_op' \in {"BLDC_Spd_inc", "BLDC_Spd_dec"}
                /\ last_op' = "BLDC_Spd_inc" => BLDC_OL_comm_tm' = BLDC_OL_comm_tm - 1
                /\ last_op' = "BLDC_Spd_dec" => BLDC_OL_comm_tm' = BLDC_OL_comm_tm + 1]_vars

C18_Witness ==
    /\ last_op = "BLDC_Update"
    /\ BLDC_State = "BLDC_ON"
    /\ BLDC_OL_comm_tm = BLDC_OL_TM_HI_SPD - 1
    /\ global_uDC = PWM_NOT_MANUAL_DEF

\* C19: the motor state changes only along OFF -> RAMPUP (by a speed
\* command), RAMPUP -> ON (by a tick that finds the period at or below the
\* high-speed period) and any state -> OFF (by a stop); a speed command in
\* RAMPUP changes neither the state nor the period.
C19_StateEdges ==
    [][/\ BLDC_State' # BLDC_State =>
            \/ /\ BLDC_State = "BLDC_OFF"
               /\ BLDC_State' = "BLDC_RAMPUP"
               /\ last_op' \in {"BLDC_Spd_inc", "BLDC_Spd_dec"}
            \/ /\ BLDC_State = "BLDC_RAMPUP"
               /\ BLDC_State' = "BLDC_ON"
               /\ last_op' = "BLDC_Update"
               /\ BLDC_OL_comm_tm <= BLDC_OL_TM_HI_SPD
            \/ /\ BLDC_State' = "BLDC_OFF"
               /\ last_op' = "BLDC_Stop"
       /\ (BLDC_State = "BLDC_RAMPUP"
             /\ last_op' \in {"BLDC_Spd_inc", "BLDC_Spd_dec"})
            => UNCHANGED <<BLDC_State, BLDC_OL_comm_tm>>]_vars

C19_Witness ==
    /\ last_op = "BLDC_Spd_dec"
    /\ BLDC_State = "BLDC_RAMPUP"
    /\ global_uDC = PWM_DC_RAMPUP
    /\ BLDC_OL_comm_tm = 300
    /\ moved

\* C20: after a commutation step either all three phases are off, or the
\* phases carry the table row of the current sector: one PWM channel enabled
\* at most, and the driver enable of a phase low exactly when it floats.
C20_StepOutputsConsistent ==
    last_op = "BLDC_Step" =>
        \/ /\ ~moved
           /\ NoPwmEnabled
           /\ DriversOff
        \/ /\ moved
           /\ last_states = SectorStates(bldc_step)
           /\ \A p \in Phases :
                 /\ cc_en[p] <=> (last_states[p + 1] = "DC_PWM_PLUS")
                 /\ (sd[p] = 0) <=> (last_states[p + 1] = "DC_OUTP_FLOAT")
           /\ Cardinality({p \in Phases : cc_en[p]}) <= 1

C20_Witness ==
    /\ last_op = "BLDC_Step"
    /\ moved
    /\ bldc_step = 4
    /\ cc_en = [p \in Phases |-> p = 2]
    /\ sd = [p \in Phases |-> IF p = 1 THEN 0 ELSE 1]
====
